---- MODULE Spec2Model ----
(***************************************************************************)
(* Hybrid recommender (recommend.py) and its Streamlit page (app.py).      *)
(*                                                                         *)
(* Numbers.  The program computes in IEEE doubles; the model computes in   *)
(* fixed point: a rating or a score x is the integer x * Scale, a cosine   *)
(* similarity s is the integer s * SimScale, the blend weight alpha is the *)
(* integer alpha * AlphaScale, divisions round down.  A pandas NaN / a     *)
(* Python None is the empty set None, a present value v is Some(v) = {v}.  *)
(***************************************************************************)
EXTENDS Integers, Sequences, FiniteSets, TLC

VARIABLES
    ratings,          \* recommend.py:21  rows of the ratings CSV
    products,         \* recommend.py:22-30  product metadata, in CSV order
    rating_matrix,    \* recommend.py:33-43  users x products
    item_similarity,  \* recommend.py:46-50
    user_similarity,  \* recommend.py:52-56
    call,             \* the last engine call and its arguments
    ret,              \* what that call returned or raised
    widgets,          \* app.py:39-52  the values of the page's input widgets
    session_state,    \* app.py:55-62  st.session_state
    page              \* what the last script run rendered

engine == <<ratings, products, rating_matrix, item_similarity, user_similarity>>
caller == <<call, ret>>
app == <<widgets, session_state, page>>
vars == <<ratings, products, rating_matrix, item_similarity, user_similarity,
          call, ret, widgets, session_state, page>>

----------------------------------------------------------------------------
(* Bounds of the model *)

Scale == 100          \* fixed-point units per rating / score point
SimScale == 1000      \* fixed-point units per unit of cosine similarity
AlphaScale == 10      \* fixed-point units of the blend weight
MaxRecords == 4       \* rows of the ratings CSV
MaxTopN == 2          \* largest top_n queried

None == {}
Some(v) == {v}
TheValue(o) == CHOOSE v \in o : TRUE

Users == {"U1", "U2"}
NoSuchUser == "NO_SUCH_USER"
RatedProducts == {"P1", "P2", "P3"}
RatingValues == {2, 5}

Min(a, b) == IF a < b THEN a ELSE b
Max(a, b) == IF a > b THEN a ELSE b

RECURSIVE SumFn(_, _)
SumFn(f, S) ==
    IF S = {} THEN 0
    ELSE LET x == CHOOSE x \in S : TRUE IN f[x] + SumFn(f, S \ {x})

RECURSIVE SqrtUpper(_, _)
SqrtUpper(n, h) == IF h * h > n THEN h ELSE SqrtUpper(n, 2 * h)

RECURSIVE SqrtBisect(_, _, _)
SqrtBisect(n, lo, hi) ==
    IF lo = hi THEN lo
    ELSE LET mid == (lo + hi + 1) \div 2
         IN  IF mid * mid <= n THEN SqrtBisect(n, mid, hi)
             ELSE SqrtBisect(n, lo, mid - 1)

\* floor(sqrt(n))
ISqrt(n) == SqrtBisect(n, 0, SqrtUpper(n, 1))

SeqRange(s) == {s[i] : i \in 1..Len(s)}

----------------------------------------------------------------------------
(* Load Data: recommend.py:21-30 *)

\* A products CSV: whether it has the optional columns, and its rows.
Row(p, c, pr) == [product |-> p, category |-> c, price |-> pr]

ProductCsvs ==
    { [has_price |-> TRUE, has_category |-> TRUE,
       rows |-> << Row("P1", "A", Some(10)), Row("P2", "B", Some(20)),
                   Row("P3", "A", None),     Row("P4", "A", Some(10)) >>],
      [has_price |-> FALSE, has_category |-> FALSE,
       rows |-> << Row("P3", "", None), Row("P1", "", None),
                   Row("P4", "", None) >>] }

\* recommend.py:25-28: a missing price column is NaN, a missing category
\* column is "General".
LoadProducts(csv) ==
    [i \in 1..Len(csv.rows) |->
        [product  |-> csv.rows[i].product,
         category |-> IF csv.has_category THEN csv.rows[i].category ELSE "General",
         price    |-> IF csv.has_price THEN csv.rows[i].price ELSE None]]

RatingRecords == [user : Users, product : RatedProducts, rating : RatingValues]

\* The non-empty ratings files of at most MaxRecords distinct rows.
RECURSIVE RecordSets(_)
RecordSets(n) ==
    IF n = 0 THEN {{}}
    ELSE LET smaller == RecordSets(n - 1)
         IN  smaller \cup {s \cup {r} : s \in smaller, r \in RatingRecords}

RatingFiles == RecordSets(MaxRecords) \ {{}}

----------------------------------------------------------------------------
(* Build Rating Matrix: recommend.py:33-43 *)

\* A frame is [index, columns, cell]: columns is a sequence (column order),
\* cell[u][p] is None (NaN) or Some(value).

CellRatings(recs, u, p) == {r \in recs : r.user = u /\ r.product = p}

RatingOf == [r \in RatingRecords |-> r.rating]

\* pivot_table's default aggregate: the mean of the group's ratings.
MeanRating(group) == (SumFn(RatingOf, group) * Scale) \div Cardinality(group)

\* recommend.py:33-37.  One row per user and one column per product that
\* occur in the ratings; a cell with no rating is NaN.
PivotTable(recs) ==
    LET idx  == {r.user : r \in recs}
        cols == {r.product : r \in recs}
    IN  [index |-> idx,
         columns |-> cols,
         cell |-> [u \in idx |-> [p \in cols |->
                     IF CellRatings(recs, u, p) = {} THEN None
                     ELSE Some(MeanRating(CellRatings(recs, u, p)))]]]

ProductColumn(prods) == [i \in 1..Len(prods) |-> prods[i].product]

\* The reindex without the catalog's new columns: only the rated products
\* of the catalog are kept.
ReindexRatedOnly(frame, columns, fill_value) ==
    LET InPivot(p) == p \in frame.columns
    IN  [index |-> frame.index,
         columns |-> SelectSeq(columns, InPivot),
         cell |-> [u \in frame.index |->
                     [p \in SeqRange(columns) \cap frame.columns |-> frame.cell[u][p]]]]

\* recommend.py:40.  The columns become the catalog's products, in catalog
\* order; a column the pivot did not have is filled with fill_value.
Reindex(frame, columns, fill_value) ==
    [index |-> frame.index,
     columns |-> columns,
     cell |-> [u \in frame.index |-> [p \in SeqRange(columns) |->
                 IF p \in frame.columns THEN frame.cell[u][p]
                 ELSE Some(fill_value)]]]

\* recommend.py:43
FillNa(frame, value) ==
    [index |-> frame.index,
     columns |-> frame.columns,
     cell |-> [u \in frame.index |-> [p \in SeqRange(frame.columns) |->
                 IF frame.cell[u][p] = None THEN value
                 ELSE TheValue(frame.cell[u][p])]]]

BuildRatingMatrix(recs, prods) ==
    FillNa(Reindex(PivotTable(recs), ProductColumn(prods), 0), 0)

----------------------------------------------------------------------------
(* Compute Similarity Matrices: recommend.py:46-56 *)

\* The Euclidean norm of a vector (a function on keys); a zero norm is
\* replaced by one, as cosine_similarity's normalisation does.
Norm(vec, keys) ==
    LET n == ISqrt(SumFn([k \in keys |-> vec[k] * vec[k]], keys))
    IN  IF n = 0 THEN Scale ELSE n

CosineSimilarity(x, y, keys) ==
    (SumFn([k \in keys |-> x[k] * y[k]], keys) * SimScale)
        \div (Norm(x, keys) * Norm(y, keys))

MatrixColumn(m, p) == [u \in m.index |-> m.cell[u][p]]

\* recommend.py:46-50
ItemSimilarity(m) ==
    [p \in SeqRange(m.columns) |-> [q \in SeqRange(m.columns) |->
        CosineSimilarity(MatrixColumn(m, p), MatrixColumn(m, q), m.index)]]

\* recommend.py:52-56
UserSimilarity(m) ==
    [u \in m.index |-> [v \in m.index |->
        CosineSimilarity(m.cell[u], m.cell[v], SeqRange(m.columns))]]

----------------------------------------------------------------------------
(* Score Functions: recommend.py:59-84 *)

\* The epsilon added to the quotient instead of the denominator.
EpsMisplaced(num, den) ==
    IF den = 0 THEN num + 1 ELSE num \div den

\* num / (den + 1e-9).  The fixed point cannot hold 1e-9: with den = 0 the
\* quotient is num * 1e9, which is 0 for num = 0.
EpsInverse == 1000000000
EpsGuardedDiv(num, den) ==
    IF den = 0 THEN num * EpsInverse ELSE num \div den

\* recommend.py:59-63
item_based_score(user_id) ==
    LET cols == SeqRange(rating_matrix.columns)
        user_ratings == rating_matrix.cell[user_id]
    IN  [p \in cols |->
            EpsGuardedDiv(
                SumFn([q \in cols |-> item_similarity[p][q] * user_ratings[q]], cols),
                SumFn(item_similarity[p], cols))]

\* recommend.py:65-72
user_based_score(user_id) ==
    LET others == rating_matrix.index \ {user_id}
        sims == [v \in others |-> user_similarity[v][user_id]]
    IN  [p \in SeqRange(rating_matrix.columns) |->
            EpsGuardedDiv(
                SumFn([v \in others |-> sims[v] * rating_matrix.cell[v][p]], others),
                SumFn(sims, others))]

\* The two weights exchanged.
BlendSwapped(alpha, ub, ib) ==
    [p \in DOMAIN ib |-> (alpha * ib[p] + (AlphaScale - alpha) * ub[p]) \div AlphaScale]

\* recommend.py:83
Blend(alpha, ub, ib) ==
    [p \in DOMAIN ib |-> (alpha * ub[p] + (AlphaScale - alpha) * ib[p]) \div AlphaScale]

\* Without the membership test the row lookup raises KeyError.
get_hybrid_scores_unchecked(user_id, alpha) ==
    IF user_id \notin rating_matrix.index
    THEN [raised |-> "KeyError"]
    ELSE [raised |-> "", scores |-> Blend(alpha, user_based_score(user_id),
                                          item_based_score(user_id))]

\* recommend.py:74-84: the Series returned, or the exception raised.
get_hybrid_scores(user_id, alpha) ==
    IF user_id \notin rating_matrix.index
    THEN [raised |-> "ValueError"]
    ELSE [raised |-> "", scores |-> Blend(alpha, user_based_score(user_id),
                                          item_based_score(user_id))]
----------------------------------------------------------------------------
(* Hybrid Recommendation: recommend.py:87-112 *)

\* recommend.py:98
already_rated(user_id) ==
    [p \in SeqRange(rating_matrix.columns) |-> rating_matrix.cell[user_id][p] > 0]

\* The mask left out.
CandidatesUnmasked(user_id) == SeqRange(rating_matrix.columns)

\* recommend.py:99: the products kept by hybrid[~already_rated]
Candidates(user_id) ==
    {p \in SeqRange(rating_matrix.columns) : ~already_rated(user_id)[p]}

\* recommend.py:102, sort_values(ascending=False) with the default kind
\* "quicksort", which is not a stable sort: every order of the candidates
\* with non-increasing scores is a possible outcome.
RECURSIVE SortValuesDescending(_, _)
SortValuesDescending(S, scores) ==
    IF S = {} THEN {<< >>}
    ELSE LET top == {m \in S : \A x \in S : scores[m] >= scores[x]}
         IN  UNION {{<<m>> \o t : t \in SortValuesDescending(S \ {m}, scores)} : m \in top}

\* recommend.py:102, head(top_n)
Head_n(s, n) == SubSeq(s, 1, Min(n, Len(s)))

ProductRow(p) == CHOOSE i \in 1..Len(products) : products[i].product = p

\* recommend.py:102-104: one row per kept product, with the columns of its
\* product record.
Merge(order, scores) ==
    [i \in 1..Len(order) |->
        [product  |-> order[i],
         score    |-> scores[order[i]],
         category |-> products[ProductRow(order[i])].category,
         price    |-> products[ProductRow(order[i])].price]]

\* recommend.py:107-108
PriceKeeps(row, price_limit) ==
    price_limit = None
    \/ (row.price # None /\ TheValue(row.price) <= TheValue(price_limit))

\* recommend.py:109-110
CategoryKeeps(row, category) ==
    category = None \/ row.category = TheValue(category)

FilterKeeps(row, price_limit, category) ==
    PriceKeeps(row, price_limit) /\ CategoryKeeps(row, category)

\* Filter the whole ranking, then truncate.
SelectRowsFilterFirst(order, scores, top_n, price_limit, category) ==
    LET Keeps(row) == FilterKeeps(row, price_limit, category)
    IN  Head_n(SelectSeq(Merge(order, scores), Keeps), top_n)

\* recommend.py:102-112: truncate the ranking, then filter.
SelectRows(order, scores, top_n, price_limit, category) ==
    LET Keeps(row) == FilterKeeps(row, price_limit, category)
    IN  SelectSeq(Merge(Head_n(order, top_n), scores), Keeps)

\* recommend.py:87-112: the possible outcomes of one call.
hybrid_recommend(user_id, alpha, top_n, price_limit, category) ==
    LET hybrid == get_hybrid_scores(user_id, alpha)
    IN  IF hybrid.raised # ""
        THEN {[raised |-> hybrid.raised]}
        ELSE {[raised |-> "",
               recs |-> SelectRows(order, hybrid.scores, top_n, price_limit, category)] :
                 order \in SortValuesDescending(Candidates(user_id), hybrid.scores)}

----------------------------------------------------------------------------
(* The engine as a state machine *)

QueryUsers == Users \cup {NoSuchUser}
Alphas == {0, (6 * AlphaScale) \div 10, AlphaScale}
TopNs == 1..MaxTopN
PriceLimits == {None, Some(10)}
Categories == {None, Some("A")}

NoCall == [op |-> "none"]
NoReturn == [raised |-> ""]

InitEngine ==
    /\ ratings \in RatingFiles
    /\ \E csv \in ProductCsvs : products = LoadProducts(csv)
    /\ rating_matrix = BuildRatingMatrix(ratings, products)
    /\ item_similarity = ItemSimilarity(rating_matrix)
    /\ user_similarity = UserSimilarity(rating_matrix)

\* No page is open.
NoWidgets == [user |-> ""]
EmptySession == [k \in {} |-> None]
BlankPage == [view |-> "blank"]

Init ==
    /\ InitEngine
    /\ call = NoCall
    /\ ret = NoReturn
    /\ widgets = NoWidgets
    /\ session_state = EmptySession
    /\ page = BlankPage

\* A caller invokes get_hybrid_scores.
GetHybridScores(user_id, alpha) ==
    /\ call = NoCall
    /\ call' = [op |-> "get_hybrid_scores", user_id |-> user_id, alpha |-> alpha]
    /\ ret' = get_hybrid_scores(user_id, alpha)
    /\ UNCHANGED <<engine, app>>

\* A caller invokes hybrid_recommend.
HybridRecommend(user_id, alpha, top_n, price_limit, category) ==
    /\ call = NoCall
    /\ call' = [op |-> "hybrid_recommend", user_id |-> user_id, alpha |-> alpha,
                top_n |-> top_n, price_limit |-> price_limit, category |-> category]
    /\ ret' \in hybrid_recommend(user_id, alpha, top_n, price_limit, category)
    /\ UNCHANGED <<engine, app>>

\* The caller is done with the result; the engine keeps nothing of a query.
Return ==
    /\ call # NoCall
    /\ call' = NoCall
    /\ ret' = NoReturn
    /\ UNCHANGED <<engine, app>>

Next ==
    \/ \E user_id \in QueryUsers, alpha \in Alphas : GetHybridScores(user_id, alpha)
    \/ \E user_id \in QueryUsers, alpha \in Alphas, top_n \in TopNs,
          price_limit \in PriceLimits, category \in Categories :
            HybridRecommend(user_id, alpha, top_n, price_limit, category)
    \/ Return

Spec == Init /\ [][Next]_vars

----------------------------------------------------------------------------
(* The page: app.py *)

MinStars == 1
MaxStars == 5
TopNDefault == 5

\* int(x): truncation toward zero of a fixed-point number.
IntTrunc(x) == IF x >= 0 THEN x \div Scale ELSE -((-x) \div Scale)

\* round(score) in place of int(score).
StarsRounded(score) ==
    Min(MaxStars, Max(MinStars, (score + Scale \div 2) \div Scale))

\* app.py:85
Stars(score) == Min(MaxStars, Max(MinStars, IntTrunc(score)))

UserOrder == <<"U1", "U2">>

\* app.py:52: the select box starts at the first row label of the matrix.
FirstUser ==
    UserOrder[CHOOSE i \in 1..Len(UserOrder) :
                /\ UserOrder[i] \in rating_matrix.index
                /\ \A j \in 1..(i - 1) : UserOrder[j] \notin rating_matrix.index]

AlphaDefault == (6 * AlphaScale) \div 10

\* The values the model lets the user give each widget.
AppAlphas == {AlphaDefault, AlphaScale}
AppTopNs == {1, TopNDefault}
AppPrices == {0, 10}
\* app.py:45
AppCats == {"All"} \cup {products[i].category : i \in 1..Len(products)}

\* app.py:39-52: the widgets' values on the first run.
DefaultWidgets ==
    [user |-> FirstUser, alpha |-> AlphaDefault, top_n |-> TopNDefault,
     price_input |-> 0, cat |-> "All"]

\* app.py:68-101: the cards and the score chart.
RenderResults(recs, scores, user) ==
    [view |-> "results",
     heading |-> user,
     cards |-> [i \in 1..Len(recs) |->
                   [product |-> recs[i].product, score |-> recs[i].score,
                    stars |-> Stars(recs[i].score), price |-> recs[i].price,
                    category |-> recs[i].category]],
     chart |-> [p \in {q \in DOMAIN scores : ~already_rated(user)[q]} |-> scores[p]]]

\* app.py:64-66
InfoPage == [view |-> "info", message |-> "Select a user & click Recommend to see results."]

\* app.py:64-101
Render(st, user) ==
    IF st.recs = None \/ TheValue(st.recs) = << >>
    THEN InfoPage
    ELSE RenderResults(TheValue(st.recs), TheValue(st.scores), user)

\* app.py:55-62: the session state after the Recommend button was handled.
SessionAfter(st, w, clicked) ==
    LET price_limit == IF w.price_input = 0 THEN None ELSE Some(w.price_input)
        cat == IF w.cat = "All" THEN None ELSE Some(w.cat)
        st0 == IF "recs" \notin DOMAIN st THEN [recs |-> None, scores |-> None] ELSE st
    IN  IF clicked
        THEN {[recs |-> Some(r.recs),
               scores |-> Some(get_hybrid_scores(w.user, w.alpha).scores)] :
                 r \in hybrid_recommend(w.user, w.alpha, w.top_n, price_limit, cat)}
        ELSE {st0}

\* One run of the script, top to bottom, with the widget values w.
ScriptRun(w, clicked) ==
    /\ widgets' = w
    /\ session_state' \in SessionAfter(session_state, w, clicked)
    /\ page' = Render(session_state', w.user)
    /\ UNCHANGED <<engine, caller>>

OpenPage ==
    /\ page = BlankPage
    /\ ScriptRun(DefaultWidgets, FALSE)

SelectUser(u) ==
    /\ page # BlankPage /\ u # widgets.user
    /\ ScriptRun([widgets EXCEPT !.user = u], FALSE)

SetAlpha(a) ==
    /\ page # BlankPage /\ a # widgets.alpha
    /\ ScriptRun([widgets EXCEPT !.alpha = a], FALSE)

SetTopN(n) ==
    /\ page # BlankPage /\ n # widgets.top_n
    /\ ScriptRun([widgets EXCEPT !.top_n = n], FALSE)

SetPriceLimit(x) ==
    /\ page # BlankPage /\ x # widgets.price_input
    /\ ScriptRun([widgets EXCEPT !.price_input = x], FALSE)

SetCategory(c) ==
    /\ page # BlankPage /\ c # widgets.cat
    /\ ScriptRun([widgets EXCEPT !.cat = c], FALSE)

ClickRecommend ==
    /\ page # BlankPage
    /\ ScriptRun(widgets, TRUE)

\* The ratings files the page is explored with: every user rated one
\* product with 5, user U1 product P1.
AppRatingFiles ==
    {f \in RatingFiles :
        /\ Cardinality(f) = Cardinality(Users)
        /\ {r.user : r \in f} = Users
        /\ \A r \in f : r.rating = 5
        /\ \E r \in f : r.user = "U1" /\ r.product = "P1"}

InitApp ==
    /\ InitEngine
    /\ ratings \in AppRatingFiles
    /\ call = NoCall
    /\ ret = NoReturn
    /\ widgets = NoWidgets
    /\ session_state = EmptySession
    /\ page = BlankPage

NextApp ==
    \/ OpenPage
    \/ \E u \in rating_matrix.index : SelectUser(u)
    \/ \E a \in AppAlphas : SetAlpha(a)
    \/ \E n \in AppTopNs : SetTopN(n)
    \/ \E x \in AppPrices : SetPriceLimit(x)
    \/ \E c \in AppCats : SetCategory(c)
    \/ ClickRecommend

SpecApp == InitApp /\ [][NextApp]_vars

----------------------------------------------------------------------------
(* The star count of one card, for scores of any sign and size *)

LowScore == 3         \* scores from -LowScore points ...
HighScore == 8        \* ... to HighScore points

CardScores == (-(LowScore * Scale))..(HighScore * Scale)

InitStars ==
    /\ ratings = {[user |-> "U1", product |-> "P1", rating |-> 5]}
    /\ products = LoadProducts(CHOOSE csv \in ProductCsvs : csv.has_price)
    /\ rating_matrix = BuildRatingMatrix(ratings, products)
    /\ item_similarity = ItemSimilarity(rating_matrix)
    /\ user_similarity = UserSimilarity(rating_matrix)
    /\ call = NoCall
    /\ ret = NoReturn
    /\ widgets = NoWidgets
    /\ session_state = EmptySession
    /\ page = BlankPage

\* app.py:85 for a row with the given score.
RenderStars(score) ==
    /\ call = NoCall
    /\ call' = [op |-> "stars", score |-> score]
    /\ ret' = [raised |-> "", stars |-> Stars(score)]
    /\ UNCHANGED <<engine, app>>

NextStars ==
    \/ \E score \in CardScores : RenderStars(score)
    \/ Return

SpecStars == InitStars /\ [][NextStars]_vars

----------------------------------------------------------------------------
(* The claims *)

CatalogIds == {products[i].product : i \in 1..Len(products)}
Recommended == call.op = "hybrid_recommend" /\ ret.raised = ""
Scored == call.op = "get_hybrid_scores" /\ ret.raised = ""
Returned == {ret.recs[i].product : i \in 1..Len(ret.recs)}

\* C1: no product returned by hybrid_recommend has a nonzero cell in the
\* querying user's row of the rating matrix.
C1_NeverReturnsRated ==
    Recommended =>
        \A i \in 1..Len(ret.recs) :
            rating_matrix.cell[call.user_id][ret.recs[i].product] = 0

C1_Witness ==
    /\ Recommended
    /\ ret.recs # << >>
    /\ \E p \in CatalogIds : rating_matrix.cell[call.user_id][p] # 0

\* The products of the catalog the user of the call has not rated, and
\* whether a product's record passes the filters of the call.
Unrated == {p \in CatalogIds : rating_matrix.cell[call.user_id][p] = 0}
RecordOf(p) == products[CHOOSE i \in 1..Len(products) : products[i].product = p]
Excluded(p) ==
    \/ /\ call.price_limit # None
       /\ \/ RecordOf(p).price = None
          \/ \E v \in RecordOf(p).price, l \in call.price_limit : v > l
    \/ /\ call.category # None
       /\ RecordOf(p).category \notin call.category

\* The sets the first top_n places of a ranking by score can hold.
TopSets(scores) ==
    {T \in SUBSET Unrated :
        /\ Cardinality(T) = Min(call.top_n, Cardinality(Unrated))
        /\ \A p \in T, q \in Unrated \ T : scores[p] >= scores[q]}

\* C2: the result is the top_n highest-ranked unrated products with those a
\* supplied filter excludes removed, in rank order; it is never refilled
\* from the ranks after top_n, so it has at most top_n rows, and top_n - 1
\* rows when exactly one of the top_n is excluded.
C2_FilterAfterRank ==
    Recommended =>
        LET scores == get_hybrid_scores(call.user_id, call.alpha).scores
        IN  /\ Len(ret.recs) <= call.top_n
            /\ Cardinality(Returned) = Len(ret.recs)
            /\ \A i \in 1..Len(ret.recs) :
                   ret.recs[i].score = scores[ret.recs[i].product]
            /\ \A i, j \in 1..Len(ret.recs) :
                   i < j => ret.recs[i].score >= ret.recs[j].score
            /\ \E T \in TopSets(scores) :
                   /\ Returned = {p \in T : ~Excluded(p)}
                   /\ (/\ Cardinality(T) = call.top_n
                       /\ Cardinality({p \in T : Excluded(p)}) = 1)
                          => Len(ret.recs) = call.top_n - 1

\* One of the top_n was excluded, and a candidate ranked after them that
\* passes the filters did not take its place.
C2_Witness ==
    /\ Recommended
    /\ call.price_limit # None
    /\ Len(ret.recs) = call.top_n - 1
    /\ \E p \in Unrated \ Returned : ~Excluded(p)

\* C3: a query for a user absent from the rating matrix raises the unknown
\* user error (ValueError in recommend.py), through get_hybrid_scores and
\* through hybrid_recommend, returns nothing, and leaves the ratings, the
\* product metadata and the three matrices as they were.
C3_UnknownUserRaises ==
    [][(/\ call'.op \in {"get_hybrid_scores", "hybrid_recommend"}
        /\ call'.user_id \notin rating_matrix.index)
          => (/\ ret' = [raised |-> "ValueError"]
              /\ UNCHANGED engine)]_vars

C3_Witness ==
    /\ call.op = "hybrid_recommend"
    /\ call.user_id \notin rating_matrix.index
    /\ ret = [raised |-> "ValueError"]

NeverRated(p) == \A r \in ratings : r.product # p

\* C4: get_hybrid_scores returns one score per product of the catalog, and
\* the score of a product nobody rated is 0.
C4_ScoreForEveryProduct ==
    Scored =>
        /\ DOMAIN ret.scores = CatalogIds
        /\ \A p \in CatalogIds : ret.scores[p] \in Int
        /\ \A p \in CatalogIds : NeverRated(p) => ret.scores[p] = 0

C4_Witness ==
    /\ Scored
    /\ \E p \in CatalogIds : NeverRated(p)
    /\ \E p \in CatalogIds : ret.scores[p] > 0

\* C5: after a Recommend click whose result is empty the page does not show
\* what it shows before any Recommend click.
C5_EmptyResultDistinguished ==
    (/\ "recs" \in DOMAIN session_state
     /\ session_state.recs = Some(<< >>))
        => page # InfoPage

Floor(x) == x \div Scale

\* C6: the stars of a score are min(5, max(1, floor(score))), so between 1
\* and 5; 0.3 gives 1 star, 3.6 gives 3 stars, 7 gives 5 stars.
C6_StarMapping ==
    call.op = "stars" =>
        /\ ret.stars = Min(5, Max(1, Floor(call.score)))
        /\ ret.stars \in 1..5
        /\ call.score = (3 * Scale) \div 10 => ret.stars = 1
        /\ call.score = (36 * Scale) \div 10 => ret.stars = 3
        /\ call.score = 7 * Scale => ret.stars = 5

\* A negative score that int() and floor() send to different integers.
C6_Witness ==
    /\ call.op = "stars"
    /\ call.score < 0
    /\ Floor(call.score) # IntTrunc(call.score)
    /\ ret.stars = 1

\* C7: with alpha = 0 the hybrid scores are the item-based scores, with
\* alpha = 1 they are the user-based scores, product by product.
C7_AlphaBoundary ==
    Scored =>
        /\ call.alpha = 0 => ret.scores = item_based_score(call.user_id)
        /\ call.alpha = AlphaScale => ret.scores = user_based_score(call.user_id)

C7_Witness ==
    /\ Scored
    /\ call.alpha = AlphaScale
    /\ \E p \in CatalogIds :
          /\ item_based_score(call.user_id)[p] > user_based_score(call.user_id)[p]
          /\ user_based_score(call.user_id)[p] > 0

\* C8: the rating matrix has a column for every product of the metadata, a
\* row for every user of a rating record, and 0 in every cell without a
\* rating.
C8_RatingMatrixShape ==
    /\ SeqRange(rating_matrix.columns) = CatalogIds
    /\ rating_matrix.index = {r.user : r \in ratings}
    /\ \A u \in rating_matrix.index :
          /\ DOMAIN rating_matrix.cell[u] = CatalogIds
          /\ \A p \in CatalogIds :
                /\ rating_matrix.cell[u][p] \in Nat
                /\ (\A r \in ratings : ~(r.user = u /\ r.product = p))
                      => rating_matrix.cell[u][p] = 0

\* A product nobody rated, a user whose only ratings are of products that
\* are not in the catalog, and a user with a rated and an unrated product.
C8_Witness ==
    /\ \E p \in CatalogIds : NeverRated(p)
    /\ \E u \in rating_matrix.index : \A p \in CatalogIds : rating_matrix.cell[u][p] = 0
    /\ \E u \in rating_matrix.index : \E p, q \in CatalogIds :
          rating_matrix.cell[u][p] > 0 /\ rating_matrix.cell[u][q] = 0

ColumnPos(p) == CHOOSE i \in 1..Len(rating_matrix.columns) : rating_matrix.columns[i] = p

\* C9: the rows come in non-increasing score order, rows of equal score in
\* catalog column order, and of two candidates of equal score that pass the
\* filters the one earlier in the catalog survives the truncation first.
C9_StableTieBreak ==
    Recommended =>
        LET scores == get_hybrid_scores(call.user_id, call.alpha).scores
        IN  /\ \A i, j \in 1..Len(ret.recs) :
                   i < j =>
                     \/ ret.recs[i].score > ret.recs[j].score
                     \/ /\ ret.recs[i].score = ret.recs[j].score
                        /\ ColumnPos(ret.recs[i].product) < ColumnPos(ret.recs[j].product)
            /\ \A p \in Returned, q \in Unrated :
                   (/\ scores[q] = scores[p]
                    /\ ColumnPos(q) < ColumnPos(p)
                    /\ ~Excluded(q))
                      => q \in Returned

\* C10: when the page shows a recommendation list, the stored list and
\* scores are what a Recommend click computes for the selected user and the
\* current values of the widgets.
C10_StoredMatchesWidgets ==
    page.view = "results" =>
        /\ session_state.recs \in
              {Some(r.recs) :
                 r \in hybrid_recommend(
                         widgets.user, widgets.alpha, widgets.top_n,
                         IF widgets.price_input = 0 THEN None ELSE Some(widgets.price_input),
                         IF widgets.cat = "All" THEN None ELSE Some(widgets.cat))}
        /\ session_state.scores =
              Some(get_hybrid_scores(widgets.user, widgets.alpha).scores)

====
